---- MODULE Spec2Model ----
(***************************************************************************)
(* Model of grade.py: the Blackboard grading helper.                       *)
(*                                                                         *)
(* Two specifications share the variables:                                 *)
(*   Spec      the batch run of main(): manifest parsing, archive          *)
(*             expansion and run() for each student;                       *)
(*   SpecNorm  collapse_whitespace applied to the lines of a text;         *)
(*   SpecRegrade  main() with --regrade: run() for one student over the    *)
(*             directories an earlier batch run has left;                  *)
(*   SpecGlob  glob_commands applied to the lines of a commands file.      *)
(***************************************************************************)
EXTENDS Integers, Sequences, FiniteSets, TLC

VARIABLES
    \* ---- main() ----
    pc,          \* position of main(): see PcValues
    exc,         \* the uncaught exception that ended main() and where
                 \* it was raised, or NoException
    cwd,         \* process working directory: "batch" or a student id
    top_temp,    \* does <batch>/temp exist
    entries,     \* archive entries still lying in <batch>/temp
    nrec,        \* info files taken from os.listdir(TEMP_DIR) so far
    nlines,      \* lines read from the current info file
    last_line,   \* the line of the info file read last (line 337)
    info_moved,  \* has the current info file been renamed away already
    stud_id,     \* parse state (line 334)
    orig_fname,  \* parse state (line 335)
    subs,        \* student ids that have a directory under submissions/
    files,       \* files[s]: regular files in submissions/<s>
    folders,     \* folders[s]: sub-directories of submissions/<s> (not temp)
    ws,          \* ws[s]: does submissions/<s>/temp exist
    rawc,        \* rawc[s]: lines of raw-out-<s>.txt
    \* ---- run_commands() ----
    ncmds,       \* number of lines of the commands file
    ci,          \* index of the next command of the loop at line 229
    output,      \* the list "output" of run_commands / run, or None
    executed,    \* outcomes of the commands executed for the current student
    run_log,     \* lines printed to run_file: <<marker, student>>
    \* ---- bookkeeping about the input read so far ----
    wellformed,  \* every manifest line read so far was well formed
    expected,    \* expected[s]: original names the records of s have named
    returned,    \* students for which run() has returned, in order
    \* ---- added state of main() and run() ----
    regrade,     \* args.regrade: a student id, or None
    resources,   \* names of the files of the resources directory
    correct,     \* lines of the correct-output file
    run_file,    \* has this run created its <time>-run.txt in the batch directory
    zipk,        \* what the zip of the current student held ("none": no zip)
    wsc,         \* wsc[s]: entries <<name, origin>> of submissions/<s>/temp
    diffc,       \* diffc[s]: lines of diff-<s>.diff
    \* ---- glob_commands ----
    gl_pc,       \* "off", "input", "done"
    gl_lines,    \* the lines of the commands file, each a list of tokens
    gl_fs,       \* gl_fs[pattern]: what glob.glob(pattern) returns
    gl_out,      \* the list glob_commands returns
    \* ---- collapse_whitespace ----
    cw_pc,       \* "off", "input", "once", "twice"
    cw_in,       \* the lines given to the first call
    cw_out       \* the list returned by the latest call

vars == << pc, exc, cwd, top_temp, entries, nrec, nlines, last_line, info_moved,
           stud_id, orig_fname, subs, files, folders, ws, rawc, ncmds, ci, output,
           executed, run_log, wellformed, expected, returned,
           regrade, resources, correct, run_file, zipk, wsc, diffc,
           gl_pc, gl_lines, gl_fs, gl_out,
           cw_pc, cw_in, cw_out >>

mainVars == << pc, exc, cwd, top_temp, entries, nrec, nlines, last_line,
               info_moved, stud_id, orig_fname, subs, files, folders, ws, rawc, ncmds, ci,
               output, executed, run_log, wellformed, expected, returned,
               regrade, resources, correct, run_file, zipk, wsc, diffc >>

cwVars == << cw_pc, cw_in, cw_out >>

glVars == << gl_pc, gl_lines, gl_fs, gl_out >>

\* The inputs no step of main() changes.
argVars == << regrade, resources, correct >>

(***************************************************************************)
(* Bounds of the model.                                                    *)
(***************************************************************************)
MaxText == 6        \* characters of a text given to the normalizer
MaxRecords == 2     \* info files in the batch archive
MaxRecLines == 3    \* lines of one info file
MaxCommands == 2    \* lines of the commands file

None == "None"

(***************************************************************************)
(* Text: characters are one-character strings, a line is a sequence of     *)
(* characters, and a Python list of lines is a sequence of lines.          *)
(***************************************************************************)
Whitespace == {" ", "\t", "\n"}

Alphabet == {"a"} \cup Whitespace

IsSpace(c) == c \in Whitespace

\* Number of whitespace characters at the start of line.
RECURSIVE LeadingSpaces(_)
LeadingSpaces(line) ==
    IF line = << >> \/ ~IsSpace(Head(line)) THEN 0
    ELSE 1 + LeadingSpaces(Tail(line))

\* Number of whitespace characters at the end of line.
RECURSIVE TrailingSpaces(_)
TrailingSpaces(line) ==
    IF line = << >> \/ ~IsSpace(line[Len(line)]) THEN 0
    ELSE 1 + TrailingSpaces(SubSeq(line, 1, Len(line) - 1))

\* A bug StripLeading could have: '^\s' in place of '^\s+'.
StripLeadingOne(line) ==
    IF line # << >> /\ IsSpace(Head(line)) THEN Tail(line) ELSE line

\* re.sub(r'^\s+', '', line)
StripLeading(line) ==
    SubSeq(line, LeadingSpaces(line) + 1, Len(line))

\* re.sub(r'\s+$', '\n', line): the leftmost match is the whole trailing run.
TrimTrailing(line) ==
    LET n == TrailingSpaces(line)
    IN  IF n = 0 THEN line
        ELSE SubSeq(line, 1, Len(line) - n) \o << "\n" >>

\* A bug RunMin could have: '\s{3,}'.
RunMinThree == 2 + 1

\* The least length of a whitespace run that r'\s{2,}' matches.
RunMin == 2

\* re.sub(r'\s{2,}', ' ', line)
RECURSIVE CollapseRuns(_)
CollapseRuns(line) ==
    IF line = << >> THEN << >>
    ELSE LET n == LeadingSpaces(line)
         IN  IF n >= RunMin
             THEN << " " >> \o CollapseRuns(SubSeq(line, n + 1, Len(line)))
             ELSE << Head(line) >> \o CollapseRuns(Tail(line))

\* The body of the loop of collapse_whitespace, lines 55-57.
CollapseLine(line) == CollapseRuns(TrimTrailing(StripLeading(line)))

\* The loop of collapse_whitespace from index i on, with the list built so far.
RECURSIVE CollapseFrom(_, _, _)
CollapseFrom(lines, i, collapsed) ==
    IF i > Len(lines) THEN collapsed
    ELSE LET line == CollapseLine(lines[i])
         IN  CollapseFrom(lines, i + 1,
                 IF line # << >> THEN Append(collapsed, line) ELSE collapsed)

collapse_whitespace(lines) == CollapseFrom(lines, 1, << >>)

\* str.splitlines(keepends=True) and file.readlines(): cut after each newline.
RECURSIVE SplitFrom(_, _, _)
SplitFrom(text, cur, acc) ==
    IF text = << >> THEN (IF cur = << >> THEN acc ELSE Append(acc, cur))
    ELSE IF Head(text) = "\n"
         THEN SplitFrom(Tail(text), << >>, Append(acc, Append(cur, "\n")))
         ELSE SplitFrom(Tail(text), Append(cur, Head(text)), acc)

splitlines(text) == SplitFrom(text, << >>, << >>)

Texts == UNION {[1..n -> Alphabet] : n \in 0..MaxText}

(***************************************************************************)
(* The batch: the universe of names the inputs are drawn from.             *)
(***************************************************************************)
Students == {"s1", "s2"}

\* Names students gave their files ("Original filename:" lines).
OrigNames == {"hw.c", "hw.zip"}

\* Names of the submitted files inside the Blackboard archive.
EntryNames == {"e1", "e2"}

\* The lines an info file can hold, by the pattern that matches them.
ManifestLines ==
    {[kind |-> "name", arg |-> s] : s \in Students}
        \cup {[kind |-> "orig", arg |-> f] : f \in OrigNames}
        \cup {[kind |-> "file", arg |-> e] : e \in EntryNames}
        \cup {[kind |-> "other", arg |-> None]}

\* What a submitted zip holds: unreadable, loose files, one folder named as
\* the zip, one folder of another name.
ZipKinds == {"corrupt", "loose", "folder_hw", "folder_proj"}

\* How one grading command ends.
Outcomes == {"ok", "nonzero", "timeout", "notfound"}

\* What a command that exits zero has printed.
OutChunks == { << >>, splitlines(<< "a", " ", " ", "a", "\n" >>) }

\* Names of the files the program writes into a student's directory.
INFO_FILE == "info"
OUTPUT_RAW_FILE == "raw-out"
OUTPUT_COND_FILE == "cond-out"
GRADING_FILE == "grading"
DIFF_FILE == "diff"
PRINT_FILE == "prints"

SKULL == "failed"
CHECK == "passed"

PcValues == {"start", "listdir", "parse", "expand", "run", "commands",
             "diff", "cleanup", "done", "aborted"}

NoException == [type |-> "none", at |-> "none"]

\* No line of the current info file has been read.
NoLine == [kind |-> "none", arg |-> None]

\* The value of "output": a list of lines, or Python's None.
ListOf(lines) == [isNone |-> FALSE, lines |-> lines]

NoneOutput == [isNone |-> TRUE, lines |-> << >>]

\* Python truth value of the list-or-None "output".
Truthy(out) == ~out.isNone /\ out.lines # << >>

\* Python's 'a in b' on strings, the strings given as character sequences.
IsSubstring(a, b) ==
    \E i \in 0..(Len(b) - Len(a)) : SubSeq(b, i + 1, i + Len(a)) = a

\* Names of the files a student's directory can hold besides the artifacts.
StudentFiles == {"hw.c", "Makefile", "a.out", "file.txt", "notes.txt"}

\* os.path.splitext(fname)[0], as characters; "{0}" stands for the student's
\* id in the name of an artifact.
Stem(fname) ==
    CASE fname = "hw.c" -> << "h", "w" >>
      [] fname = "hw.zip" -> << "h", "w" >>
      [] fname = "main.c" -> << "m", "a", "i", "n" >>
      [] fname = "Makefile" -> << "M", "a", "k", "e", "f", "i", "l", "e" >>
      [] fname = "a.out" -> << "a" >>
      [] fname = "file.txt" -> << "f", "i", "l", "e" >>
      [] fname = "notes.txt" -> << "n", "o", "t", "e", "s" >>
      [] fname = INFO_FILE -> << "i", "n", "f", "o", "-", "{0}" >>
      [] fname = OUTPUT_RAW_FILE ->
            << "r", "a", "w", "-", "o", "u", "t", "-", "{0}" >>
      [] fname = OUTPUT_COND_FILE ->
            << "c", "o", "n", "d", "-", "o", "u", "t", "-", "{0}" >>
      [] fname = GRADING_FILE ->
            << "g", "r", "a", "d", "i", "n", "g", "-", "{0}" >>
      [] fname = DIFF_FILE -> << "d", "i", "f", "f", "-", "{0}" >>
      [] fname = PRINT_FILE -> << "p", "r", "i", "n", "t", "s", "-", "{0}" >>
      [] OTHER -> << "?" >>

\* os.path.splitext(fname)[1]
Ext(fname) ==
    CASE fname \in {"hw.c", "main.c"} -> ".c"
      [] fname = "hw.zip" -> ".zip"
      [] fname = "a.out" -> ".out"
      [] fname = DIFF_FILE -> ".diff"
      [] fname = "Makefile" -> ""
      [] OTHER -> ".txt"

\* Line 190: name in ('Makefile') or ext in ('.c', '.h').  ('Makefile') is
\* a string, not a tuple, so the first test is a substring test.
Selected(fname) ==
    \/ IsSubstring(Stem(fname), Stem("Makefile"))
    \/ Ext(fname) \in {".c", ".h"}

\* The resources directory and the correct-output file of the batch run.
BatchResources == {"Makefile"}

BatchCorrect == splitlines(<< "a", " ", "a", "\n" >>)

\* A bug FreshTemp could have: os.makedirs(TEMP_DIR, exist_ok=True) with no
\* rmtree before it.
KeepTemp(old) == old

\* Lines 176-178: temp is removed if it exists, and made anew.
FreshTemp(old) == {}

\* shutil.copy of the files named into a directory: a copy replaces an
\* entry of the same name.
CopyInto(dir, names, origin) ==
    {e \in dir : e[1] \notin names} \cup {<< n, origin >> : n \in names}

\* run_setup_temp, lines 176-193, on the old temp and the student's files.
SetupTemp(old, res, listing) ==
    CopyInto(CopyInto(FreshTemp(old), res, "resource"),
             {f \in listing : Selected(f)}, "student")

\* The longest common prefix of two lists, as a length.
RECURSIVE CommonPrefix(_, _)
CommonPrefix(a, b) ==
    IF a = << >> \/ b = << >> \/ Head(a) # Head(b) THEN 0
    ELSE 1 + CommonPrefix(Tail(a), Tail(b))

Reverse(q) == [i \in 1..Len(q) |-> q[Len(q) + 1 - i]]

Tagged(tag, lines) == [i \in 1..Len(lines) |-> [tag |-> tag, line |-> lines[i]]]

\* difflib.unified_diff(a, b, fromfile='correct', tofile='student'): nothing
\* for equal lists; otherwise the two file lines and a hunk.  The hunk is
\* given here as one change between the common start and the common end
\* (difflib may split a longer change further).
unified_diff(a, b) ==
    IF a = b THEN << >>
    ELSE LET pre == CommonPrefix(a, b)
             ra == SubSeq(a, pre + 1, Len(a))
             rb == SubSeq(b, pre + 1, Len(b))
             suf == CommonPrefix(Reverse(ra), Reverse(rb))
         IN  Tagged("---", << << >> >>) \o Tagged("+++", << << >> >>)
                \o Tagged("@@", << << >> >>)
                \o Tagged(" ", SubSeq(a, 1, pre))
                \o Tagged("-", SubSeq(ra, 1, Len(ra) - suf))
                \o Tagged("+", SubSeq(rb, 1, Len(rb) - suf))
                \o Tagged(" ", SubSeq(ra, Len(ra) - suf + 1, Len(ra)))

\* get_correct_output, lines 274-280.
get_correct_output == collapse_whitespace(correct)

\* A bug Regrading could have: the flag is never looked at.
NeverRegrading(arg) == FALSE

\* Line 302: 'if args.regrade'.
Regrading(arg) == arg # None

(***************************************************************************)
(* Initial state: main() has parsed its arguments and changed into the     *)
(* batch directory; nothing of an earlier run is left there.               *)
(***************************************************************************)
InitMain ==
    /\ pc = "start"
    /\ exc = NoException
    /\ last_line = NoLine
    /\ cwd = << >>
    /\ top_temp = FALSE
    /\ entries = {}
    /\ nrec = 0
    /\ nlines = 0
    /\ info_moved = FALSE
    /\ stud_id = None
    /\ orig_fname = None
    /\ subs = {}
    /\ files = [s \in Students |-> {}]
    /\ folders = [s \in Students |-> {}]
    /\ ws = [s \in Students |-> FALSE]
    /\ rawc = [s \in Students |-> << >>]
    /\ ci = 1
    /\ output = ListOf(<< >>)
    /\ executed = << >>
    /\ run_log = << >>
    /\ wellformed = TRUE
    /\ expected = [s \in Students |-> {}]
    /\ returned = << >>
    /\ regrade = None
    /\ resources = BatchResources
    /\ correct = BatchCorrect
    /\ run_file = FALSE
    /\ zipk = "none"
    /\ wsc = [s \in Students |-> {}]
    /\ diffc = [s \in Students |-> << >>]

InitGlobOff ==
    /\ gl_pc = "off"
    /\ gl_lines = << >>
    /\ gl_fs = << >>
    /\ gl_out = << >>

InitNormOff ==
    /\ cw_pc = "off"
    /\ cw_in = << >>
    /\ cw_out = << >>

Init ==
    /\ InitMain
    /\ InitGlobOff
    /\ InitNormOff
    /\ ncmds \in 1..MaxCommands

\* An exception nobody catches ends main().
Abort(e) ==
    /\ pc' = "aborted"
    /\ exc' = [type |-> e, at |-> pc]

(***************************************************************************)
(* main(), line 299 and lines 308-321: create the run log, open the        *)
(* archive, recreate submissions/ and temp/, extract the archive into      *)
(* temp/.                                                                  *)
(***************************************************************************)
Extract ==
    /\ pc = "start"
    /\ pc' = "listdir"
    /\ run_file' = TRUE
    /\ wsc' = [s \in Students |-> {}]
    /\ diffc' = [s \in Students |-> << >>]
    /\ UNCHANGED zipk
    /\ subs' = {}
    /\ files' = [s \in Students |-> {}]
    /\ folders' = [s \in Students |-> {}]
    /\ ws' = [s \in Students |-> FALSE]
    /\ top_temp' = TRUE
    /\ entries' = EntryNames
    /\ UNCHANGED << exc, cwd, nrec, nlines, info_moved, stud_id, orig_fname,
                    rawc, ncmds, ci, output, executed, run_log, wellformed,
                    expected, returned >>
    /\ UNCHANGED << last_line, argVars, cwVars, glVars >>

(***************************************************************************)
(* main(), line 299 and lines 302-304: the run log is created, then the    *)
(* change into the directory of the student to regrade.                    *)
(***************************************************************************)
Regrade ==
    /\ pc = "start"
    /\ run_file' = TRUE
    /\ stud_id' = regrade
    /\ IF regrade \in subs
       THEN /\ cwd' = << regrade >>
            /\ pc' = "run"
            /\ UNCHANGED exc
       ELSE \* os.chdir to a directory that does not exist
            /\ Abort("FileNotFoundError")
            /\ UNCHANGED cwd
    /\ UNCHANGED << top_temp, entries, nrec, nlines, info_moved, orig_fname,
                    subs, files, folders, ws, rawc, ncmds, ci, output, executed,
                    run_log, wellformed, expected, returned, zipk, wsc, diffc >>
    /\ UNCHANGED << last_line, argVars, cwVars, glVars >>

\* main(), lines 299-321: regrade one student, or unpack the batch.
Start == IF Regrading(regrade) THEN Regrade ELSE Extract

(***************************************************************************)
(* main(), lines 324-335: the loop takes the next info file of the listing *)
(* and opens it.                                                           *)
(***************************************************************************)
NextInfo ==
    /\ pc = "listdir"
    /\ nrec < MaxRecords
    /\ nrec' = nrec + 1
    /\ nlines' = 0
    /\ last_line' = NoLine
    /\ info_moved' = FALSE
    /\ stud_id' = None
    /\ orig_fname' = None
    /\ zipk' = "none"
    /\ pc' = "parse"
    /\ UNCHANGED << run_file, wsc, diffc >>
    /\ UNCHANGED << exc, cwd, top_temp, entries, subs, files, folders, ws,
                    rawc, ncmds, ci, output, executed, run_log, wellformed,
                    expected, returned >>
    /\ UNCHANGED << argVars, cwVars, glVars >>

(***************************************************************************)
(* main(), line 396: the listing is exhausted, temp/ is removed.           *)
(***************************************************************************)
ListDone ==
    /\ pc = "listdir"
    /\ top_temp' = FALSE
    /\ entries' = {}
    /\ pc' = "done"
    /\ UNCHANGED << run_file, zipk, wsc, diffc >>
    /\ UNCHANGED << exc, cwd, nrec, nlines, info_moved, stud_id, orig_fname,
                    subs, files, folders, ws, rawc, ncmds, ci, output,
                    executed, run_log, wellformed, expected, returned >>
    /\ UNCHANGED << last_line, argVars, cwVars, glVars >>

(***************************************************************************)
(* main(), lines 337-362: one line of the info file.                       *)
(***************************************************************************)
\* A bug os_path_join could have: building the path with str.format, which
\* turns None into the name 'None' and raises nothing.
FormatJoin(dir, name) == [raises |-> FALSE, dir |-> dir, name |-> name]

\* os.path.join(SUBS_DIR, dir, name): TypeError when a component is None.
os_path_join(dir, name) ==
    IF dir = None \/ name = None
    THEN [raises |-> TRUE, dir |-> dir, name |-> name]
    ELSE [raises |-> FALSE, dir |-> dir, name |-> name]

\* Is this line what the records' format allows at this point of the file:
\* the name line first, original names after it, an entry name after an
\* original name and naming an entry the archive holds.
WellFormedLine(l) ==
    CASE l.kind = "name" -> stud_id = None /\ nlines = 0
      [] l.kind = "orig" -> stud_id # None
      [] l.kind = "file" ->
            stud_id # None /\ orig_fname # None /\ l.arg \in entries
      [] OTHER -> TRUE

\* Lines 340-346: the student's name / id.
NameLine(s) ==
    /\ stud_id' = s
    /\ UNCHANGED << orig_fname, entries, expected >>
    /\ IF s \in subs
       THEN \* os.mkdir of an existing directory
            /\ Abort("FileExistsError")
            /\ UNCHANGED << subs, files, info_moved >>
       ELSE /\ subs' = subs \cup {s}
            /\ IF info_moved
               THEN \* os.rename of the info file that is no longer in temp
                    /\ Abort("FileNotFoundError")
                    /\ UNCHANGED << files, info_moved >>
               ELSE /\ files' = [files EXCEPT ![s] = @ \cup {INFO_FILE}]
                    /\ info_moved' = TRUE
                    /\ UNCHANGED << pc, exc >>

\* Lines 349-352: an original filename.
OrigLine(f) ==
    /\ orig_fname' = f
    /\ UNCHANGED << pc, exc, stud_id, entries, subs, files, info_moved,
                    expected >>

\* Lines 355-362: a filename as it is in the archive.
FileLine(e) ==
    LET dst == os_path_join(stud_id, orig_fname)
    IN  /\ UNCHANGED << stud_id, orig_fname, subs, info_moved >>
        /\ IF dst.raises
           THEN /\ Abort("TypeError")
                /\ UNCHANGED << entries, files, expected >>
           ELSE IF e \notin entries \/ dst.dir \notin subs
           THEN \* os.rename: the source or the target directory is missing
                /\ Abort("FileNotFoundError")
                /\ UNCHANGED << entries, files, expected >>
           ELSE /\ entries' = entries \ {e}
                /\ files' = [files EXCEPT ![dst.dir] = @ \cup {dst.name}]
                /\ expected' = [expected EXCEPT ![dst.dir] = @ \cup {dst.name}]
                /\ UNCHANGED << pc, exc >>

\* A line none of the three patterns matches.
OtherLine ==
    UNCHANGED << pc, exc, stud_id, orig_fname, entries, subs, files,
                 info_moved, expected >>

ReadLine ==
    /\ pc = "parse"
    /\ nlines < MaxRecLines
    /\ \E l \in ManifestLines :
        /\ last_line' = l
        /\ nlines' = nlines + 1
        /\ wellformed' = (wellformed /\ WellFormedLine(l))
        /\ CASE l.kind = "name" -> NameLine(l.arg)
             [] l.kind = "orig" -> OrigLine(l.arg)
             [] l.kind = "file" -> FileLine(l.arg)
             [] OTHER -> OtherLine
    /\ UNCHANGED << cwd, top_temp, nrec, folders, ws, rawc, ncmds, ci, output,
                    executed, run_log, returned, run_file, zipk, wsc, diffc >>
    /\ UNCHANGED << argVars, cwVars, glVars >>

(***************************************************************************)
(* main(), line 365: the info file is read; change into the student's      *)
(* directory.                                                              *)
(***************************************************************************)
EndOfInfo ==
    /\ pc = "parse"
    /\ wellformed' = (wellformed /\ stud_id # None)
    /\ IF stud_id = None
       THEN \* os.path.join(SUBS_DIR, None)
            /\ Abort("TypeError")
            /\ UNCHANGED cwd
       ELSE /\ pc' = "expand"
            /\ cwd' = << stud_id >>
            /\ UNCHANGED exc
    /\ UNCHANGED << top_temp, entries, nrec, nlines, info_moved, stud_id,
                    orig_fname, subs, files, folders, ws, rawc, ncmds, ci,
                    output, executed, run_log, expected, returned, run_file,
                    zipk, wsc, diffc >>
    /\ UNCHANGED << last_line, argVars, cwVars, glVars >>

(***************************************************************************)
(* main(), lines 366-389: uncompress the archives of the student's         *)
(* directory and hoist the folder named as a listed file.  The only        *)
(* archive of the universe is hw.zip, whose content is an input.           *)
(***************************************************************************)
IsArchive(fname) == fname = "hw.zip"

\* os.path.splitext(fname)[0]
BaseName(fname) ==
    CASE fname = "hw.zip" -> "hw"
      [] fname = "hw.c" -> "hw"
      [] fname = "main.c" -> "main"
      [] OTHER -> fname

Expand ==
    /\ pc = "expand"
    /\ LET s == stud_id
           listing == files[s]
       IN  IF \E f \in listing : IsArchive(f)
           THEN \E kind \in ZipKinds :
                IF kind = "corrupt"
                THEN \* zipfile.ZipFile raises BadZipFile
                     /\ Abort("BadZipFile")
                     /\ zipk' = kind
                     /\ UNCHANGED << files, folders >>
                ELSE LET extracted ==
                             CASE kind = "folder_hw" -> {"hw"}
                               [] kind = "folder_proj" -> {"proj"}
                               [] OTHER -> {}
                         hoisted ==
                             {d \in extracted :
                                 \E f \in listing : BaseName(f) = d}
                         loose ==
                             IF kind = "loose" \/ hoisted # {}
                             THEN {"main.c"} ELSE {}
                     IN  /\ files' = [files EXCEPT ![s] =
                                (@ \ {f \in listing : IsArchive(f)}) \cup loose]
                         /\ folders' = [folders EXCEPT ![s] =
                                (@ \cup extracted) \ hoisted]
                         /\ zipk' = kind
                         /\ pc' = "run"
                         /\ UNCHANGED exc
           ELSE /\ pc' = "run"
                /\ UNCHANGED << exc, files, folders, zipk >>
    /\ UNCHANGED << cwd, top_temp, entries, nrec, nlines, info_moved, stud_id,
                    orig_fname, subs, ws, rawc, ncmds, ci, output, executed,
                    run_log, wellformed, expected, returned, run_file, wsc,
                    diffc >>
    /\ UNCHANGED << last_line, argVars, cwVars, glVars >>

(***************************************************************************)
(* run(), lines 154-165, and run_commands(), lines 217-228: the grading    *)
(* template, the workspace, the cheat scan, the raw output file opened for *)
(* writing, the change into the workspace.                                 *)
(***************************************************************************)
RunSetup ==
    /\ pc = "run"
    /\ LET s == stud_id
       IN  /\ files' = [files EXCEPT ![s] =
                  @ \cup {GRADING_FILE, PRINT_FILE, OUTPUT_RAW_FILE}]
           /\ ws' = [ws EXCEPT ![s] = TRUE]
           /\ wsc' = [wsc EXCEPT ![s] =
                  SetupTemp(@, resources, files[s] \cup {GRADING_FILE})]
           /\ rawc' = [rawc EXCEPT ![s] = << >>]
           /\ cwd' = << s, "temp" >>
    /\ ci' = 1
    /\ output' = ListOf(<< >>)
    /\ executed' = << >>
    /\ pc' = "commands"
    /\ UNCHANGED << exc, top_temp, entries, nrec, nlines, info_moved, stud_id,
                    orig_fname, subs, folders, ncmds, run_log, wellformed,
                    expected, returned, run_file, zipk, diffc >>
    /\ UNCHANGED << last_line, argVars, cwVars, glVars >>

(***************************************************************************)
(* run_commands(), lines 229-244: one command of the loop.                 *)
(***************************************************************************)
\* The exception check_output raises for an outcome.
Raised(outcome) ==
    CASE outcome = "nonzero" -> "CalledProcessError"
      [] outcome = "timeout" -> "TimeoutExpired"
      [] outcome = "notfound" -> "FileNotFoundError"
      [] OTHER -> "none"

\* A bug IsSubprocessError could have: 'except CalledProcessError'.
OnlyCalledProcessError(e) == e = "CalledProcessError"

\* Line 234, 'except SubprocessError': the classes derived from it.
IsSubprocessError(e) == e \in {"CalledProcessError", "TimeoutExpired"}

\* A bug AfterFailure could have: no return at the end of the handler.
AfterFailureContinue == "continue"

\* Line 244: the handler leaves run_commands.
AfterFailure == "return"

\* A bug ParentDir could have: no os.chdir('..') before the return.
SameDir(path) == path

\* Lines 243 and 247: os.chdir('..').
ParentDir(path) == SubSeq(path, 1, Len(path) - 1)

\* What the handler prints into the raw output file, lines 236-241.
ErrorLines(e) ==
    IF e = "CalledProcessError"
    THEN << << "str(error)", e >>, << "error.output" >> >>
    ELSE << << "str(error)", e >> >>

RunCommand ==
    /\ pc = "commands"
    /\ ci <= ncmds
    /\ \E outcome \in Outcomes, chunk \in OutChunks :
        LET s == stud_id
            e == Raised(outcome)
        IN  /\ executed' = Append(executed, outcome)
            /\ IF e = "none"
               THEN /\ output' = ListOf(output.lines \o chunk)
                    /\ ci' = ci + 1
                    /\ UNCHANGED << pc, exc, cwd, rawc, run_log >>
               ELSE /\ chunk = << >>
                    /\ IF IsSubprocessError(e)
                       THEN /\ run_log' = Append(run_log, << SKULL, s >>)
                            /\ rawc' = [rawc EXCEPT ![s] = @ \o ErrorLines(e)]
                            /\ UNCHANGED exc
                            /\ IF AfterFailure = "return"
                               THEN /\ cwd' = ParentDir(cwd)
                                    /\ output' = NoneOutput
                                    /\ pc' = "diff"
                                    /\ UNCHANGED ci
                               ELSE /\ ci' = ci + 1
                                    /\ UNCHANGED << pc, cwd, output >>
                       ELSE /\ Abort(e)
                            /\ UNCHANGED << cwd, rawc, run_log, ci, output >>
    /\ UNCHANGED << top_temp, entries, nrec, nlines, info_moved, stud_id,
                    orig_fname, subs, files, folders, ws, ncmds, wellformed,
                    expected, returned, run_file, zipk, wsc, diffc >>
    /\ UNCHANGED << last_line, argVars, cwVars, glVars >>

(***************************************************************************)
(* run_commands(), lines 246-248: every command has succeeded.             *)
(***************************************************************************)
CommandsDone ==
    /\ pc = "commands"
    /\ ci > ncmds
    /\ run_log' = Append(run_log, << CHECK, stud_id >>)
    /\ cwd' = ParentDir(cwd)
    /\ pc' = "diff"
    /\ UNCHANGED << exc, top_temp, entries, nrec, nlines, info_moved, stud_id,
                    orig_fname, subs, files, folders, ws, rawc, ncmds, ci,
                    output, executed, wellformed, expected, returned, run_file,
                    zipk, wsc, diffc >>
    /\ UNCHANGED << last_line, argVars, cwVars, glVars >>

(***************************************************************************)
(* run_diff(), lines 254-271.                                              *)
(***************************************************************************)
RunDiff ==
    /\ pc = "diff"
    /\ LET s == stud_id
       IN  IF ~Truthy(output)
           THEN UNCHANGED << files, rawc, diffc >>
           ELSE /\ files' = [files EXCEPT ![s] =
                       @ \cup {OUTPUT_RAW_FILE, OUTPUT_COND_FILE, DIFF_FILE}]
                /\ rawc' = [rawc EXCEPT ![s] = output.lines]
                /\ diffc' = [diffc EXCEPT ![s] =
                       unified_diff(get_correct_output,
                                    collapse_whitespace(output.lines))]
    /\ pc' = "cleanup"
    /\ UNCHANGED << exc, cwd, top_temp, entries, nrec, nlines, info_moved,
                    stud_id, orig_fname, subs, folders, ws, ncmds, ci, output,
                    executed, run_log, wellformed, expected, returned, run_file,
                    zipk, wsc >>
    /\ UNCHANGED << last_line, argVars, cwVars, glVars >>

(***************************************************************************)
(* run(), lines 168-169, then main(): line 394 in the loop, the return of  *)
(* line 306 when regrading.                                                *)
(***************************************************************************)
RunEnd ==
    /\ pc = "cleanup"
    /\ ws' = [ws EXCEPT ![stud_id] = IF Truthy(output) THEN FALSE ELSE @]
    /\ wsc' = [wsc EXCEPT ![stud_id] = IF Truthy(output) THEN {} ELSE @]
    /\ returned' = Append(returned, stud_id)
    /\ IF Regrading(regrade)
       THEN /\ pc' = "done"
            /\ UNCHANGED cwd
       ELSE /\ cwd' = << >>
            /\ pc' = "listdir"
    /\ UNCHANGED << exc, top_temp, entries, nrec, nlines, info_moved, stud_id,
                    orig_fname, subs, files, folders, rawc, ncmds, ci, output,
                    executed, run_log, wellformed, expected, run_file, zipk,
                    diffc >>
    /\ UNCHANGED << last_line, argVars, cwVars, glVars >>

Next ==
    \/ Start
    \/ NextInfo
    \/ ListDone
    \/ ReadLine
    \/ EndOfInfo
    \/ Expand
    \/ RunSetup
    \/ RunCommand
    \/ CommandsDone
    \/ RunDiff
    \/ RunEnd

Spec == Init /\ [][Next]_vars

(***************************************************************************)
(* collapse_whitespace on its own: the lines of any text, normalized once  *)
(* and then once more.                                                     *)
(***************************************************************************)
InitNorm ==
    /\ InitMain
    /\ InitGlobOff
    /\ ncmds = 1
    /\ cw_pc = "input"
    /\ \E text \in Texts : cw_in = splitlines(text)
    /\ cw_out = << >>

CollapseOnce ==
    /\ cw_pc = "input"
    /\ cw_out' = collapse_whitespace(cw_in)
    /\ cw_pc' = "once"
    /\ UNCHANGED << cw_in, mainVars, glVars >>

CollapseTwice ==
    /\ cw_pc = "once"
    /\ cw_out' = collapse_whitespace(cw_out)
    /\ cw_pc' = "twice"
    /\ UNCHANGED << cw_in, mainVars, glVars >>

NextNorm ==
    \/ CollapseOnce
    \/ CollapseTwice

SpecNorm == InitNorm /\ [][NextNorm]_vars

(***************************************************************************)
(* A regrade run, main() with --regrade: it starts in a batch directory    *)
(* that an earlier batch run has left.  The earlier run of a student       *)
(* either went through to its diff ("passed": the artifacts of run_diff    *)
(* are there and temp is removed) or stopped at a failed command           *)
(* ("failed": temp is left, no diff).                                      *)
(***************************************************************************)
\* The resources directories of the regrade runs.
ResourceSets == { {"Makefile"}, {"Makefile", "notes.txt"} }

\* The correct-output files: a line of text, an empty file, a blank line.
References == { BatchCorrect, << >>, splitlines(<< "\n" >>) }

\* What the earlier run has left of its workspace, and of its diff.
EarlierTemp == { << "Makefile", "earlier" >>, << "hw.c", "earlier" >>,
                 << "a.out", "earlier" >> }

EarlierDiff ==
    unified_diff(get_correct_output,
                 collapse_whitespace(splitlines(<< "a", "\n" >>)))

\* The student's directory after the earlier run.
Graded(own, prior) ==
    own \cup {INFO_FILE, GRADING_FILE, PRINT_FILE, OUTPUT_RAW_FILE}
        \cup (IF prior = "passed" THEN {OUTPUT_COND_FILE, DIFF_FILE} ELSE {})

InitRegrade ==
    /\ InitNormOff
    /\ InitGlobOff
    /\ pc = "start"
    /\ exc = NoException
    /\ cwd = << >>
    /\ top_temp = FALSE
    /\ entries = {}
    /\ nrec = 0
    /\ nlines = 0
    /\ last_line = NoLine
    /\ info_moved = FALSE
    /\ stud_id = None
    /\ orig_fname = None
    /\ ci = 1
    /\ output = ListOf(<< >>)
    /\ executed = << >>
    /\ run_log = << >>
    /\ wellformed = TRUE
    /\ returned = << >>
    /\ run_file = FALSE
    /\ zipk = "none"
    /\ folders = [s \in Students |-> {}]
    /\ regrade \in Students
    /\ subs \in { {"s1"}, Students }
    /\ resources \in ResourceSets
    /\ correct \in References
    /\ ncmds \in 1..MaxCommands
    /\ \E own \in SUBSET StudentFiles, prior \in {"passed", "failed"} :
        LET mine(s) == IF s = regrade THEN own ELSE {"hw.c"}
        IN  /\ expected = [s \in Students |-> IF s \in subs THEN mine(s) ELSE {}]
            /\ files = [s \in Students |->
                    IF s \in subs THEN Graded(mine(s), prior) ELSE {}]
            /\ ws = [s \in Students |-> s \in subs /\ prior = "failed"]
            /\ wsc = [s \in Students |->
                    IF s \in subs /\ prior = "failed" THEN EarlierTemp ELSE {}]
            /\ diffc = [s \in Students |->
                    IF s \in subs /\ prior = "passed" THEN EarlierDiff
                    ELSE << >>]
            /\ rawc = [s \in Students |->
                    IF s \notin subs THEN << >>
                    ELSE IF prior = "passed"
                    THEN splitlines(<< "a", "\n" >>)
                    ELSE ErrorLines("TimeoutExpired")]

NextRegrade ==
    \/ Start
    \/ RunSetup
    \/ RunCommand
    \/ CommandsDone
    \/ RunDiff
    \/ RunEnd

SpecRegrade == InitRegrade /\ [][NextRegrade]_vars

(***************************************************************************)
(* glob_commands on its own, lines 132-148: the lines of a commands file   *)
(* and what glob.glob finds in the workspace.                              *)
(***************************************************************************)
\* The lines a commands file is made of: 'cc *.c', './a.out', './*.out x'.
CommandLines ==
    { << "c", "c", " ", "*", ".", "c", "\n" >>,
      << ".", "/", "a", ".", "o", "u", "t", "\n" >>,
      << ".", "/", "*", ".", "o", "u", "t", " ", " ", "x", "\n" >> }

StarC == << "*", ".", "c" >>

StarOut == << ".", "/", "*", ".", "o", "u", "t" >>

\* What glob.glob can return for a pattern: no, one or two paths.
GlobResults(pattern) ==
    IF pattern = StarC
    THEN { << >>,
           << << "h", "w", ".", "c" >> >>,
           << << "h", "w", ".", "c" >>, << "m", "a", "i", "n", ".", "c" >> >> }
    ELSE { << >>,
           << << ".", "/", "a", ".", "o", "u", "t" >> >>,
           << << ".", "/", "a", ".", "o", "u", "t" >>,
              << ".", "/", "b", ".", "o", "u", "t" >> >> }

\* str.split(): the maximal runs of characters that are not whitespace.
RECURSIVE SplitTokens(_, _, _)
SplitTokens(line, cur, acc) ==
    IF line = << >>
    THEN IF cur = << >> THEN acc ELSE Append(acc, cur)
    ELSE IF IsSpace(Head(line))
    THEN SplitTokens(Tail(line), << >>,
                     IF cur = << >> THEN acc ELSE Append(acc, cur))
    ELSE SplitTokens(Tail(line), Append(cur, Head(line)), acc)

split(line) == SplitTokens(line, << >>, << >>)

\* os.path.abspath of a relative path: the working directory ("cwd" stands
\* for its path) joined with the path, leading './' components dropped.
RECURSIVE DropDotSlash(_)
DropDotSlash(path) ==
    IF Len(path) >= 2 /\ SubSeq(path, 1, 2) = << ".", "/" >>
    THEN DropDotSlash(SubSeq(path, 3, Len(path)))
    ELSE path

abspath(path) ==
    IF path # << >> /\ Head(path) = "/" THEN path
    ELSE << "/", "cwd", "/" >> \o DropDotSlash(path)

\* A bug OneMatch could have: the first match is taken whenever there is one.
SomeMatch(globs) == Len(globs) >= 1

\* Line 141: len(globs) == 1.
OneMatch(globs) == Len(globs) = 1

\* Lines 139-145: one token.
GlobToken(token) ==
    IF IsSubstring(<< "*" >>, token)
    THEN LET globs == gl_fs[token]
         IN  IF OneMatch(globs) THEN globs[1] ELSE token
    ELSE IF IsSubstring(<< ".", "/" >>, token)
    THEN abspath(token)
    ELSE token

\* Lines 135-148.
glob_commands(lines) ==
    [i \in 1..Len(lines) |->
        LET tokens == split(lines[i])
        IN  [j \in 1..Len(tokens) |-> GlobToken(tokens[j])]]

InitGlob ==
    /\ InitMain
    /\ InitNormOff
    /\ ncmds = 1
    /\ gl_pc = "input"
    /\ gl_lines \in UNION {[1..n -> CommandLines] : n \in 1..MaxCommands}
    /\ gl_fs \in [{StarC, StarOut} -> GlobResults(StarC) \cup GlobResults(StarOut)]
    /\ \A pattern \in {StarC, StarOut} : gl_fs[pattern] \in GlobResults(pattern)
    /\ gl_out = << >>

GlobCommands ==
    /\ gl_pc = "input"
    /\ gl_out' = glob_commands(gl_lines)
    /\ gl_pc' = "done"
    /\ UNCHANGED << gl_lines, gl_fs, mainVars, cwVars >>

NextGlob == GlobCommands

SpecGlob == InitGlob /\ [][NextGlob]_vars

(***************************************************************************)
(* Properties.                                                             *)
(***************************************************************************)
Last(seq) == seq[Len(seq)]

Failures == {"nonzero", "timeout"}

\* The students for which run() has returned.
Returned == {returned[i] : i \in 1..Len(returned)}

\* The status line the run log holds for student s.
Passed(s) == \E i \in 1..Len(run_log) : run_log[i] = << CHECK, s >>

Failed(s) == \E i \in 1..Len(run_log) : run_log[i] = << SKULL, s >>

\* C1: in run_commands, once command i has exited non-zero or timed out, no
\* command with a greater index is executed for that student: a failed
\* command is the last one executed.
C1_StopAtFirstFailure ==
    \A i \in 1..Len(executed) :
        executed[i] \in Failures => i = Len(executed)

\* The batch has ended, and the last student's first command of two timed
\* out and the second one was never run.
C1_Witness ==
    /\ pc = "done"
    /\ ncmds = 2
    /\ executed = << "timeout" >>

\* C2: after run() has returned for a student, the student's temp directory
\* no longer exists, whether the commands succeeded or one failed.
C2_WorkspaceRemoved ==
    \A s \in Returned : ~ws[s]

\* C3: a command whose executable does not exist is recorded as a failure
\* and run_commands returns normally: no exception leaves it.
C3_NotFoundHandled ==
    (executed # << >> /\ Last(executed) = "notfound")
        => (exc.at # "commands" /\ Failed(stud_id))

\* C4: a command that exits non-zero or times out does not stop the batch:
\* the step that meets the failure raises nothing and goes on to run_diff,
\* run_diff and the end of run() raise nothing and lead back to the loop of
\* main over the info files, and the failure stays written in the student's
\* raw output file.
C4_FailureNotFatal ==
    /\ [][(pc = "commands" /\ Len(executed') > Len(executed)
              /\ Last(executed') \in Failures)
            => (pc' = "diff" /\ exc' = NoException
                  /\ rawc'[stud_id] = ErrorLines(Raised(Last(executed'))))]_vars
    /\ [][pc = "diff" => (pc' = "cleanup" /\ exc' = NoException)]_vars
    /\ [][pc = "cleanup"
            => (pc' = "listdir" /\ exc' = NoException
                  /\ returned' = Append(returned, stud_id))]_vars
    /\ [](\A s \in Returned :
            Failed(s) => \E e \in {"CalledProcessError", "TimeoutExpired"} :
                            rawc[s] = ErrorLines(e))

\* A student whose command timed out is followed by a student that went
\* through the whole of run().
C4_Witness ==
    /\ Len(returned) = 2
    /\ run_log = << << SKULL, returned[1] >>, << CHECK, returned[2] >> >>
    /\ rawc[returned[1]] = ErrorLines("TimeoutExpired")
    /\ GRADING_FILE \in files[returned[2]]

\* C5: a 'Filename:' line read while the student id or the original
\* filename is still unknown aborts the batch: nothing is renamed for that
\* line, and main takes no further step.
C5_EarlyFilenameLineAborts ==
    /\ [][(pc = "parse" /\ nlines' = nlines + 1 /\ last_line'.kind = "file"
              /\ (stud_id = None \/ orig_fname = None))
            => (pc' = "aborted" /\ entries' = entries /\ files' = files
                  /\ subs' = subs)]_vars
    /\ [][pc # "aborted"]_vars

\* The batch was aborted by a 'Filename:' line that came after the name
\* line and before any original filename.
C5_Witness ==
    /\ pc = "aborted"
    /\ exc = [type |-> "TypeError", at |-> "parse"]
    /\ last_line.kind = "file"
    /\ stud_id # None
    /\ orig_fname = None
    /\ entries = EntryNames

\* C6: for well-formed manifest records, also when several records carry
\* the same student id, the parsing completes, and the student's directory
\* exists and holds every file the student's records name.
C6_WellFormedParses ==
    wellformed =>
        /\ exc.at # "parse"
        /\ pc = "expand" =>
              (stud_id \in subs /\ expected[stud_id] \subseteq files[stud_id])

\* C7: for every student whose run() has returned, the grading template, an
\* output file, the diff file and the cheat-scan file exist.
C7_AllArtifacts ==
    \A s \in Returned :
        {GRADING_FILE, OUTPUT_RAW_FILE, DIFF_FILE, PRINT_FILE} \subseteq files[s]

\* C8: the diff is computed exactly for the runs without a failed command,
\* a run whose commands printed nothing included.
C8_DiffIffNoFailure ==
    \A s \in Returned : (DIFF_FILE \in files[s]) <=> Passed(s)

\* C9: collapse_whitespace is idempotent: applied to its own result it
\* returns that result.
C9_Idempotent ==
    cw_pc = "twice" => cw_out = collapse_whitespace(cw_in)

\* Two calls on a line with leading, interior and trailing whitespace.
C9_Witness ==
    /\ cw_pc = "twice"
    /\ cw_in = << << "\t", "a", " ", " ", "a", "\n" >> >>
    /\ cw_out = << << "a", " ", "a", "\n" >> >>

\* Does line start with whitespace, hold two whitespace characters in a
\* row, or hold nothing.
Unnormalized(l) ==
    \/ l = << >>
    \/ IsSpace(l[1])
    \/ \E j \in 1..(Len(l) - 1) : IsSpace(l[j]) /\ IsSpace(l[j + 1])

\* The strictly increasing maps from the indices of out into those of in.
OrderMaps(in, out) ==
    {f \in [1..Len(out) -> 1..Len(in)] :
        \A j, k \in 1..Len(out) : j < k => f[j] < f[k]}

\* C10: no line collapse_whitespace returns starts with whitespace, holds a
\* run of two or more whitespace characters or is empty, and the returned
\* lines are in the order of the input lines they come from.
C10_Normalized ==
    cw_pc = "once" =>
        /\ \A i \in 1..Len(cw_out) : ~Unnormalized(cw_out[i])
        /\ \E f \in OrderMaps(cw_in, cw_out) :
              \A k \in 1..Len(cw_out) : cw_out[k] = CollapseLine(cw_in[f[k]])

\* Three lines, the middle one blank: two lines are returned, in order.
C10_Witness ==
    /\ cw_pc = "once"
    /\ cw_in = << << "a", "\n" >>, << "\n" >>, << " ", "a" >> >>
    /\ cw_out = << << "a", "\n" >>, << "a" >> >>

(***************************************************************************)
(* The diff, the commands, the archives and the workspace.                 *)
(***************************************************************************)
\* C11: when the run of a student succeeds and its output and the reference
\* normalize to the same lines, the diff the student's directory holds is
\* empty.
C11_WhitespaceOnlyDiffEmpty ==
    (/\ pc = "cleanup"
     /\ Passed(stud_id)
     /\ collapse_whitespace(output.lines) = get_correct_output)
        => (DIFF_FILE \in files[stud_id] => diffc[stud_id] = << >>)

\* The tokens of the lines given to glob_commands, by line.
GivenTokens == [i \in 1..Len(gl_lines) |-> split(gl_lines[i])]

Wildcard(token) == \E k \in 1..Len(token) : token[k] = "*"

RelativeMarker(token) ==
    \E k \in 1..(Len(token) - 1) : token[k] = "." /\ token[k + 1] = "/"

\* C12: glob_commands returns, for every line, as many arguments as the line
\* has tokens and in their order; a token with a wildcard becomes the match
\* when the pattern has exactly one, and stays as it is with no or several
\* matches; a token with neither wildcard nor './' stays as it is.
C12_SingleMatchOnly ==
    gl_pc = "done" =>
        /\ Len(gl_out) = Len(gl_lines)
        /\ \A i \in 1..Len(gl_lines) :
            /\ Len(gl_out[i]) = Len(GivenTokens[i])
            /\ \A j \in 1..Len(GivenTokens[i]) :
                LET token == GivenTokens[i][j]
                    arg == gl_out[i][j]
                IN  /\ (Wildcard(token) /\ Len(gl_fs[token]) = 1)
                            => arg = gl_fs[token][1]
                    /\ (Wildcard(token) /\ Len(gl_fs[token]) # 1)
                            => arg = token
                    /\ (~Wildcard(token) /\ ~RelativeMarker(token))
                            => arg = token

\* 'cc *.c' with one match and './*.out x' with two: the first pattern is
\* replaced, the second is kept, cc and x pass through.
C12_Witness ==
    /\ gl_pc = "done"
    /\ Len(gl_fs[StarC]) = 1
    /\ Len(gl_fs[StarOut]) = 2
    /\ gl_out = << << << "c", "c" >>, gl_fs[StarC][1] >>,
                   << StarOut, << "x" >> >> >>

\* C13: every token holding './' is an absolute path in what glob_commands
\* returns, a token that also holds a wildcard included.
C13_RelativeMadeAbsolute ==
    gl_pc = "done" =>
        \A i \in 1..Len(gl_lines) :
            \A j \in 1..Len(GivenTokens[i]) :
                RelativeMarker(GivenTokens[i][j])
                    => (gl_out[i][j] # << >> /\ Head(gl_out[i][j]) = "/")

\* C14: after the expansion of a zip that held one top-level folder, the
\* folder's content lies in the student's directory, no folder is left and
\* the zip is gone.
C14_FolderHoisted ==
    (pc = "run" /\ zipk \in {"folder_hw", "folder_proj"})
        => /\ "main.c" \in files[stud_id]
           /\ folders[stud_id] = {}
           /\ \A f \in files[stud_id] : ~IsArchive(f)

\* C15: a corrupt zip in a student's submission does not end the batch.
C15_CorruptArchiveNotFatal ==
    zipk = "corrupt" => pc # "aborted"

\* The names of the student's files that run_setup_temp copies.
Copied(s) == {f \in files[s] : Selected(f)}

\* C16 as stated: after run_setup_temp the workspace holds the resources
\* and the selected student files and nothing else, and every name that is
\* both a resource and a file of the student is the student's copy.
C16_FreshWorkspace ==
    (pc = "commands" /\ executed = << >>) =>
        LET s == stud_id
        IN  /\ {e[1] : e \in wsc[s]} = resources \cup Copied(s)
            /\ \A e \in wsc[s] : e[2] # "earlier"
            /\ \A n \in resources \cap files[s] : << n, "student" >> \in wsc[s]

\* C16, amended: after run_setup_temp the workspace holds the resources and
\* the selected student files and nothing else, no entry is left from an
\* earlier run, every name that is both a resource and a selected file of
\* the student is the student's copy, and every other resource is the
\* resource's copy.
C16_FreshWorkspaceSelected ==
    (pc = "commands" /\ executed = << >>) =>
        LET s == stud_id
        IN  wsc[s] = {<< n, "student" >> : n \in Copied(s)}
                \cup {<< n, "resource" >> : n \in resources \ Copied(s)}

\* A regrade after a failed run, whose workspace was left: Makefile is a
\* resource and a selected file, notes.txt a resource and a file that is
\* not selected.
C16_Witness ==
    /\ pc = "commands"
    /\ executed = << >>
    /\ regrade # None
    /\ DIFF_FILE \notin files[stud_id]
    /\ {"Makefile", "notes.txt"} \subseteq (resources \cap files[stud_id])
    /\ << "Makefile", "student" >> \in wsc[stud_id]
    /\ << "notes.txt", "resource" >> \in wsc[stud_id]

\* The status lines of the run log that name student s.
StatusLines(s) == {i \in 1..Len(run_log) : run_log[i][2] = s}

\* C17: when the commands of a student have been run, the run log holds
\* exactly one status line of the student: the success marker if and only
\* if every command succeeded, the failure marker if and only if a command
\* failed.
C17_OneStatusLine ==
    (\/ pc \in {"diff", "cleanup"}
     \/ (pc = "aborted" /\ exc.at = "commands"))
        => /\ Cardinality(StatusLines(stud_id)) = 1
           /\ Passed(stud_id) <=>
                 (\A i \in 1..Len(executed) : executed[i] = "ok")
           /\ Failed(stud_id) <=>
                 (\E i \in 1..Len(executed) : executed[i] # "ok")

\* C18: a file of the student is in the workspace only if its name without
\* extension is Makefile or its extension is .c or .h.
C18_OnlySourcesCopied ==
    pc = "commands" =>
        \A e \in wsc[stud_id] :
            e[2] = "student" =>
                \/ Stem(e[1]) = Stem("Makefile")
                \/ Ext(e[1]) \in {".c", ".h"}

\* C19: when run_commands has returned, the working directory is the
\* student's directory; at the start of an iteration of the loop of main it
\* is the batch directory.
C19_DirectoryRestored ==
    /\ pc \in {"diff", "cleanup"} => cwd = << stud_id >>
    /\ pc \in {"listdir", "parse"} => cwd = << >>

\* The second student of a batch, after a command of theirs has failed.
C19_Witness ==
    /\ pc = "diff"
    /\ nrec = 2
    /\ Failed(stud_id)
    /\ cwd = << stud_id >>

\* What a directory of submissions/ is made of.
StudentDir(s) == << files[s], folders[s], ws[s], wsc[s], rawc[s], diffc[s] >>

\* Everything of the batch directory but the directory of the student to
\* regrade and the run log.
OutsideRegraded ==
    << subs, top_temp, entries,
       [s \in Students \ {regrade} |-> StudentDir(s)] >>

\* C20 as stated: with --regrade nothing but the directory of that student
\* changes.
C20_OnlyStudentChanged ==
    [][regrade # None =>
          (OutsideRegraded' = OutsideRegraded /\ run_file' = run_file)]_vars

\* C20, amended: with --regrade nothing but the directory of that student
\* and the new run log changes: no archive is extracted into temp,
\* submissions/ keeps its directories, the other students' files and
\* artifacts stay.
C20_OnlyStudentAndRunLog ==
    [][regrade # None => OutsideRegraded' = OutsideRegraded]_vars

\* The regrade of one of two students has run to its end.
C20_Witness ==
    /\ regrade # None
    /\ pc = "done"
    /\ subs = Students
    /\ run_file
    /\ returned = << regrade >>

====
